---------------------------- MODULE Spec2Model ----------------------------
(***************************************************************************)
(* Debatrium: the asynchronous PDF preprocessing pipeline.                 *)
(*                                                                         *)
(*   - chunkText / sanitizeExtractedText  (backend/utils)                  *)
(*   - enqueuePdfPreprocess               (backend/queues)                 *)
(*   - processPdfPreprocess, markAsFailed (workers/pdfPreprocess.worker)   *)
(*   - recoverOrphanedPdfs                (utils/recoverOrphanedPdfs)      *)
(*   - uploadPdfController, deletePdf     (controllers/upload.controller)  *)
(*   - process start-up, crash and Redis reconnect (server.js, redis.js)   *)
(*                                                                         *)
(* Every await of the JavaScript is one atomic step; the synchronous code  *)
(* that follows an await belongs to the step of that await.                *)
(***************************************************************************)
EXTENDS Integers, Sequences, FiniteSets, TLC

VARIABLES
    ck,          \* one call of chunkText: its arguments, cursor and output
    uploads,     \* document id -> the owner and the file of that upload
    docs,        \* the Pdf collection: document id -> record, or NoDoc
    blobs,       \* the Cloudinary objects that exist (by document id)
    chunkRows,   \* the PdfChunk collection: <<pdf, index>> -> number of rows
    jobs,        \* the live jobs of the "pdf-preprocess" queue
    worker,      \* the worker process: "down", "starting", "up", "hung"
    sweep,       \* the running recoverOrphanedPdfs call, with its call log
    results,     \* document id -> what the last job run for it returned
    sup,         \* the cluster primary of server.js and the processes it forks
    wp           \* one worker process of workerEntry.js

vars == <<ck, uploads, docs, blobs, chunkRows, jobs, worker, sweep, results, sup, wp>>
mainVars == <<uploads, docs, blobs, chunkRows, jobs, worker, sweep, results, sup, wp>>
serviceVars == <<ck, uploads, docs, blobs, chunkRows, jobs, worker, sweep, results, wp>>
serviceVarsButWp == <<ck, uploads, docs, blobs, chunkRows, jobs, worker, sweep, results>>

-----------------------------------------------------------------------------
(* Bounds of the model. *)

NumDocs == 2         \* document ids 1..NumDocs
MaxTextLen == 3      \* longest text handed to a stand-alone chunkText call
MaxChunkSize == 3    \* largest small chunkSize of a stand-alone chunkText call
MaxEmitted == 4      \* the chunk list of a call that never returns stops growing here
MaxExits == 2        \* worker exits that the primary answers with a respawn
MaxReadies == 3      \* "ready" events of the shared Redis connection
MaxTriggers == 2     \* signals and uncaught errors that call the primary's gracefulShutdown

(* Program constants. *)

WorkerChunkSize == 1200          \* chunkText(extractedText, { chunkSize: 1200, ...
WorkerOverlap == 250             \* ... overlap: 250 })
MAX_PDF_SIZE == 20 * 1024 * 1024
UPLOAD_LIMIT == 10 * 1024 * 1024 \* multer limits.fileSize
Attempts == 3                    \* defaultJobOptions.attempts
Concurrency == 2                 \* new Worker(..., { concurrency: 2 })

-----------------------------------------------------------------------------
(* Characters and strings.  A string is a sequence of characters.          *)

Min(a, b) == IF a < b THEN a ELSE b

\* what String.prototype.trim strips
IsSpace(c) == c \in {" ", "\t", "\n", "\r"}

RECURSIVE TrimLeft(_)
TrimLeft(s) == IF s # <<>> /\ IsSpace(Head(s)) THEN TrimLeft(Tail(s)) ELSE s

RECURSIVE TrimRight(_)
TrimRight(s) ==
    IF s # <<>> /\ IsSpace(s[Len(s)]) THEN TrimRight(SubSeq(s, 1, Len(s) - 1)) ELSE s

Trim(s) == TrimRight(TrimLeft(s))

\* text.slice(from, to): zero-based, half-open
Slice(s, from, to) == SubSeq(s, from + 1, to)

-----------------------------------------------------------------------------
(* chunkText, backend/utils/chunkText.js.                                  *)

\* the locals of chunkText before the loop
ChunkStart == [start |-> 0, index |-> 0, chunks |-> <<>>]

\* one iteration of the while loop: the locals after it
ChunkIter(text, chunkSize, overlap, st) ==
    LET end == Min(st.start + chunkSize, Len(text))
        chunk == Trim(Slice(text, st.start, end))
        moved == end - overlap
    IN  [start  |-> IF moved < 0 THEN 0 ELSE moved,
         index  |-> IF chunk # <<>> THEN st.index + 1 ELSE st.index,
         chunks |-> IF chunk # <<>>
                    THEN Append(st.chunks, [index |-> st.index, text |-> chunk])
                    ELSE st.chunks]

\* The loop run to its exit.  The loop is deterministic and its condition and
\* cursor update read only `start`, which lies in 0..Len(text)-1 whenever the
\* body runs: a call that has run the body Len(text)+1 times has met some
\* cursor value twice and never leaves the loop.
RECURSIVE ChunkLoop(_, _, _, _, _)
ChunkLoop(text, chunkSize, overlap, st, fuel) ==
    IF ~(st.start < Len(text)) THEN [returns |-> TRUE, chunks |-> st.chunks]
    ELSE IF fuel = 0 THEN [returns |-> FALSE, chunks |-> <<>>]
    ELSE ChunkLoop(text, chunkSize, overlap,
                   ChunkIter(text, chunkSize, overlap, st), fuel - 1)

\* chunkText(text, { chunkSize, overlap }): the chunk list, or no return at all
chunkText(text, chunkSize, overlap) ==
    IF text = <<>> THEN [returns |-> TRUE, chunks |-> <<>>]
    ELSE ChunkLoop(text, chunkSize, overlap, ChunkStart, Len(text) + 1)

(* The same call, step by step. *)

ChunkAlphabet == {"a", " "}
ChunkTexts == UNION {[1..n -> ChunkAlphabet] : n \in 0..MaxTextLen}
ChunkParams ==
    {p \in (1..MaxChunkSize) \X (0..MaxChunkSize) : p[2] < p[1]}
        \cup {<<WorkerChunkSize, WorkerOverlap>>}

\* index and chunks are kept up to MaxEmitted chunks; beyond that, turns
\* records the parity of the further turns of the loop
ChunkIdle ==
    [pc |-> "idle", text |-> <<>>, chunkSize |-> 0, overlap |-> 0,
     start |-> 0, index |-> 0, chunks |-> <<>>, turns |-> 0]

\* line 11: if (!text || typeof text !== "string") return [];
ChunkEnter ==
    /\ ck.pc = "call"
    /\ ck' = [ck EXCEPT !.pc = IF ck.text = <<>> THEN "done" ELSE "loop"]
    /\ UNCHANGED mainVars

\* lines 17-32: the loop condition holds and the body runs once
ChunkStep ==
    /\ ck.pc = "loop"
    /\ ck.start < Len(ck.text)
    /\ LET st == ChunkIter(ck.text, ck.chunkSize, ck.overlap,
                           [start |-> ck.start, index |-> ck.index, chunks |-> ck.chunks])
           full == Len(ck.chunks) >= MaxEmitted
       IN  ck' = [ck EXCEPT !.start = st.start,
                            !.index = IF full THEN ck.index ELSE st.index,
                            !.chunks = IF full THEN ck.chunks ELSE st.chunks,
                            !.turns = IF full THEN 1 - ck.turns ELSE ck.turns]
    /\ UNCHANGED mainVars

\* lines 17, 34: the loop condition fails, return chunks
ChunkReturn ==
    /\ ck.pc = "loop"
    /\ ~(ck.start < Len(ck.text))
    /\ ck' = [ck EXCEPT !.pc = "done"]
    /\ UNCHANGED mainVars

ChunkNext == ChunkEnter \/ ChunkStep \/ ChunkReturn

-----------------------------------------------------------------------------
(* sanitizeExtractedText, backend/utils/sanitizeExtractedText.js.          *)
(* Characters: "a" and "b" are letters, "fw_a" is the full-width letter a   *)
(* (NFKC maps it to "a"), "NUL" is a control character.                     *)

\* /[\x00-\x08\x0B\x0C\x0E-\x1F\x7F]/
IsControl(c) == c \in {"NUL", "DEL"}

RemoveControl(s) == SelectSeq(s, LAMBDA c : ~IsControl(c))

Nfkc(c) == IF c = "fw_a" THEN "a" ELSE c

NormalizeNfkc(s) == [i \in 1..Len(s) |-> Nfkc(s[i])]

IsBlank(c) == c \in {" ", "\t"}

RECURSIVE DropBlanks(_)
DropBlanks(s) == IF s # <<>> /\ IsBlank(Head(s)) THEN DropBlanks(Tail(s)) ELSE s

\* .replace(/[ \t]+/g, " ")
RECURSIVE CollapseBlanks(_)
CollapseBlanks(s) ==
    IF s = <<>> THEN <<>>
    ELSE IF IsBlank(Head(s)) THEN <<" ">> \o CollapseBlanks(DropBlanks(s))
    ELSE <<Head(s)>> \o CollapseBlanks(Tail(s))

RECURSIVE DropNewlines(_)
DropNewlines(s) == IF s # <<>> /\ Head(s) = "\n" THEN DropNewlines(Tail(s)) ELSE s

\* .replace(/\n{3,}/g, "\n\n")
RECURSIVE CollapseNewlines(_)
CollapseNewlines(s) ==
    IF s = <<>> THEN <<>>
    ELSE IF Len(s) >= 3 /\ s[1] = "\n" /\ s[2] = "\n" /\ s[3] = "\n"
         THEN <<"\n", "\n">> \o CollapseNewlines(DropNewlines(s))
    ELSE <<Head(s)>> \o CollapseNewlines(Tail(s))

sanitizeExtractedText(text) ==
    IF text = <<>> THEN <<>>
    ELSE Trim(CollapseNewlines(CollapseBlanks(NormalizeNfkc(RemoveControl(text)))))

\* crypto.createHash("sha256").update(text).digest("hex"): collisions left out
Sha256(text) == <<"sha256">> \o text

-----------------------------------------------------------------------------
(* The uploaded files (what Cloudinary holds and the PDF parser makes of    *)
(* them).                                                                   *)

Files == {"fa", "fa2", "blank", "corrupt", "huge"}

\* pdf.size, in bytes
FileSize(f) == IF f = "huge" THEN MAX_PDF_SIZE + 1 ELSE 1024

\* does PDFParse read the buffer
FileReadable(f) == f # "corrupt"

\* extractPdfText(buffer): result.text || ""
FileRawText(f) ==
    CASE f = "fa"    -> <<"a">>
      [] f = "fa2"   -> <<" ", "fw_a", "NUL", "\t">>
      [] f = "blank" -> <<"NUL", " ", "\n">>
      [] OTHER       -> <<"a", " ", "b">>

\* sanitizeExtractedText(text) of every file's extracted text
SanitizedTexts == [f \in Files |-> sanitizeExtractedText(FileRawText(f))]

\* the text the worker and the upload controller derive from a file
FileText(f) == SanitizedTexts[f]

-----------------------------------------------------------------------------
(* The Pdf collection (models/pdf.model.js) and the PdfChunk collection.    *)

Docs == 1..NumDocs
Users == {"u1", "u2"}
Null == <<"null">>

\* a document id no record was ever stored under
NoDoc ==
    [life |-> "none", user |-> "-", file |-> "-", preprocessStatus |-> "-",
     contentHash |-> Null, extractedText |-> Null]

\* Pdf.create(...) with the schema defaults: preprocessStatus "pending",
\* contentHash null, extractedText null
NewPdf(u, f) ==
    [life |-> "live", user |-> u, file |-> f, preprocessStatus |-> "pending",
     contentHash |-> Null, extractedText |-> Null]

\* what is left of a record once it is deleted (the worker still holds the
\* fields it loaded: user, publicId, pdfUrl, size)
Deleted(r, how) ==
    [life |-> how, user |-> r.user, file |-> r.file, preprocessStatus |-> "-",
     contentHash |-> Null, extractedText |-> Null]

Exists(store, d) == store[d].life = "live"

\* (mutant) the index is not unique
HashNeverTaken(store, d, u, h) == FALSE

\* (mutant) the index takes a record's own earlier write for a collision
HashTakenBySelf(store, d, u, h) ==
    /\ h # Null
    /\ \E e \in Docs :
          Exists(store, e) /\ store[e].user = u /\ store[e].contentHash = h

\* pdfSchema.index({ user: 1, contentHash: 1 }, { unique: true, sparse: true }):
\* would document d, owned by u, holding hash h collide with another record.
\* A sparse index leaves out the documents that have none of its fields.
\* Every record has a user, and contentHash is stored as null (default: null),
\* so every record has the index key <<user, contentHash>>, null included.
HashTaken(store, d, u, h) ==
    \E e \in Docs \ {d} :
        Exists(store, e) /\ store[e].user = u /\ store[e].contentHash = h

\* pdfChunkSchema.index({ pdf: 1, index: 1 }, { unique: true }): may a row with
\* this key be inserted
ChunkKeyFree(rows, d, i) == rows[<<d, i>>] = 0

MaxChunkIndex == MaxEmitted
ChunkKeys == Docs \X (0..MaxChunkIndex)
NoChunks == [k \in ChunkKeys |-> 0]

-----------------------------------------------------------------------------
(* The queue, backend/queues/pdfPreprocess.queue.js.  `jobs` holds the live *)
(* (waiting or active) jobs; a job that returned or used up its attempts    *)
(* leaves it.  Backoff delays are time only: a failed attempt goes straight *)
(* back to waiting.                                                         *)

\* (mutant) a job id that is not a function of the document alone
JobIdPerStatus(pdfId) ==
    IF docs[pdfId].preprocessStatus = "pending" THEN pdfId ELSE NumDocs + pdfId

\* line 39: const jobId = pdfId.toString()
JobId(pdfId) == pdfId

\* stalled counts the times the job was taken from a run that lost its lock
NewJob(pdfId) ==
    [id |-> JobId(pdfId), pdfId |-> pdfId, state |-> "waiting",
     attemptsMade |-> 0, stalled |-> 0, pc |-> "-"]

IdLive(q, id) == \E j \in q : j.id = id

\* how pdfPreprocessQueue.add(..., { jobId }) can end: the job is added, the
\* broker refuses an id it already holds, or the call fails otherwise
AddOutcomes(q, pdfId) ==
    IF IdLive(q, JobId(pdfId)) THEN {"exists", "error"} ELSE {"added", "error"}

JobsAfterAdd(q, pdfId, outcome) ==
    IF outcome = "added" THEN q \cup {NewJob(pdfId)} ELSE q

\* (mutant) every error of add is rethrown
EnqueueRethrowsAll(outcome) == outcome = "added"

\* (mutant) every error of add is swallowed
EnqueueSwallowsAll(outcome) == TRUE

\* lines 48-56: "Job already exists" is swallowed, anything else is rethrown
EnqueueReturns(outcome) == outcome # "error"

\* the record of one enqueuePdfPreprocess(pdfId) call
EnqueueCall(q, pdfId, outcome) ==
    [pdfId   |-> pdfId,
     live    |-> \E j \in q : j.pdfId = pdfId,
     outcome |-> outcome,
     result  |-> IF EnqueueReturns(outcome) THEN "returned" ELSE "thrown",
     added   |-> JobsAfterAdd(q, pdfId, outcome) # q]

NoEnqueue ==
    [pdfId |-> 0, live |-> FALSE, outcome |-> "-", result |-> "-", added |-> FALSE]

ActiveJobs == {j \in jobs : j.state = "active"}

\* the processor returned: the job is done
Returned(j, result) ==
    /\ jobs' = jobs \ {j}
    /\ results' = [results EXCEPT ![j.pdfId] = result]

\* (mutant) a job that threw is not run again
AfterThrowNoRetry(q, j) == q \ {j}

\* (mutant) one attempt more than configured
AfterThrowFourAttempts(q, j) ==
    IF j.attemptsMade < Attempts
    THEN (q \ {j}) \cup {[j EXCEPT !.state = "waiting", !.pc = "-",
                                   !.attemptsMade = j.attemptsMade + 1]}
    ELSE q \ {j}

\* the processor threw: attempts: 3
AfterThrow(q, j) ==
    IF j.attemptsMade + 1 < Attempts
    THEN (q \ {j}) \cup {[j EXCEPT !.state = "waiting", !.pc = "-",
                                   !.attemptsMade = j.attemptsMade + 1]}
    ELSE q \ {j}

\* the processor goes on to its next await
Goto(j, pc) == jobs' = (jobs \ {j}) \cup {[j EXCEPT !.pc = pc]}

-----------------------------------------------------------------------------
(* recoverOrphanedPdfs, utils/recoverOrphanedPdfs.js.                       *)

\* (mutant) the query misses the documents a crash left in "processing"
OrphanStatusesPendingOnly == {"pending"}

OrphanStatuses == {"pending", "processing"}

RECURSIVE Ascending(_)
Ascending(S) ==
    IF S = {} THEN <<>>
    ELSE LET m == CHOOSE x \in S : \A y \in S : x <= y
         IN  <<m>> \o Ascending(S \ {m})

\* Pdf.find({ preprocessStatus: { $in: [...] } }).select("_id")
FindOrphaned(store) ==
    Ascending({d \in Docs : Exists(store, d) /\
                            store[d].preprocessStatus \in OrphanStatuses})

NoSweep ==
    [pc |-> "idle", by |-> "-", scan |-> <<>>, next |-> 0, calls |-> <<>>,
     last |-> NoEnqueue, seen |-> [d \in Docs |-> "-"]]

\* lines 269-276: the query, and the early return on an empty result
SweepBegin(by) ==
    LET found == FindOrphaned(docs)
    IN  sweep' = [pc    |-> IF found = <<>> THEN "done" ELSE "enqueue",
                  by    |-> by,
                  scan  |-> found,
                  next  |-> 1,
                  calls |-> <<>>,
                  last  |-> NoEnqueue,
                  seen  |-> [d \in Docs |-> docs[d].preprocessStatus]]

\* lines 280-283: one turn of the for loop, await enqueuePdfPreprocess(pdf._id);
\* a throw leaves the loop and the function
SweepEnqueueWhen(brokerUp) ==
    /\ sweep.pc = "enqueue"
    /\ LET d == sweep.scan[sweep.next]
       IN  \E outcome \in AddOutcomes(jobs, d) \ (IF brokerUp THEN {"error"} ELSE {}) :
              /\ jobs' = JobsAfterAdd(jobs, d, outcome)
              /\ sweep' = [sweep EXCEPT
                     !.calls = Append(sweep.calls, d),
                     !.last = EnqueueCall(jobs, d, outcome),
                     !.next = sweep.next + 1,
                     !.pc = IF ~EnqueueReturns(outcome) THEN "thrown"
                            ELSE IF sweep.next = Len(sweep.scan) THEN "done"
                            ELSE "enqueue"]
    /\ UNCHANGED <<wp, sup, ck, uploads, docs, blobs, chunkRows, worker, results>>

SweepEnqueue == SweepEnqueueWhen(FALSE)

\* The caller goes on.  At start-up (server.js 195-210) the worker is started
\* after the sweep, and a sweep that threw ends the process; after a Redis
\* reconnect (redis.js 36-38) a throw is only logged.
SweepEnd ==
    /\ sweep.pc \in {"done", "thrown"}
    /\ sweep' = NoSweep
    /\ worker' = IF sweep.by # "startup" THEN worker
                 ELSE IF sweep.pc = "done" THEN "up" ELSE "down"
    /\ UNCHANGED <<wp, sup, ck, uploads, docs, blobs, chunkRows, jobs, results>>

-----------------------------------------------------------------------------
(* Processes: server.js, workerEntry.js, redis/redis.js.                    *)

\* server.js 191-199: connectDB, await recoverOrphanedPdfs(), then the worker
StartServer ==
    /\ worker = "down"
    /\ sweep.pc = "idle"
    /\ SweepBegin("startup")
    /\ worker' = "starting"
    /\ UNCHANGED <<wp, sup, ck, uploads, docs, blobs, chunkRows, jobs, results>>

\* server.js 44-69 and 163, workerEntry.js 31-45: the primary forks the worker
\* process (again, 1 s after any exit), which connects and starts the worker
ForkWorker ==
    /\ worker = "down"
    /\ worker' = "up"
    /\ UNCHANGED <<wp, sup, ck, uploads, docs, blobs, chunkRows, jobs, sweep, results>>

\* redis.js 29-40: "ready" after a reconnect
RedisReconnect ==
    /\ sweep.pc = "idle"
    /\ SweepBegin("reconnect")
    /\ UNCHANGED <<wp, sup, ck, uploads, docs, blobs, chunkRows, jobs, worker, results>>

\* The worker process is gone.  Its active jobs stall: the broker hands a
\* stalled job out again or drops it.  A start-up sweep dies with the process.
StalledJobs ==
    /\ worker' = "down"
    /\ \E again \in SUBSET ActiveJobs :
          jobs' = (jobs \ ActiveJobs) \cup
                  {[j EXCEPT !.state = "waiting", !.pc = "-"] : j \in again}
    /\ sweep' = IF sweep.by = "startup" THEN NoSweep ELSE sweep
    /\ UNCHANGED <<wp, sup, ck, uploads, docs, blobs, chunkRows, results>>

\* the process is killed or crashes
WorkerKilled ==
    /\ worker \in {"starting", "up"}
    /\ StalledJobs

\* a chunkText call that never returns pushes chunks until the heap is full
OutOfMemory ==
    /\ worker = "hung"
    /\ StalledJobs

-----------------------------------------------------------------------------
(* controllers/upload.controller.js.                                        *)

\* uploadPdfController, lines 21-95: the text is extracted and hashed in the
\* request, the record is created with both, a duplicate (E11000) is refused
\* and its Cloudinary object destroyed.  No job is enqueued.
uploadPdfController(d) ==
    LET u == uploads[d].user
        f == uploads[d].file
    IN  /\ docs[d] = NoDoc
        /\ FileSize(f) <= UPLOAD_LIMIT
        /\ FileReadable(f)
        /\ FileText(f) # <<>>
        /\ ~HashTaken(docs, d, u, Sha256(FileText(f)))
        /\ docs' = [docs EXCEPT ![d] =
                       [NewPdf(u, f) EXCEPT !.extractedText = FileText(f),
                                            !.contentHash = Sha256(FileText(f))]]
        /\ blobs' = blobs \cup {d}
        /\ UNCHANGED <<wp, sup, ck, uploads, chunkRows, jobs, worker, sweep, results>>

\* deletePdf, lines 99-120: cloudinary destroy, then Pdf.deleteOne
deletePdf(d) ==
    /\ Exists(docs, d)
    /\ docs' = [docs EXCEPT ![d] = Deleted(docs[d], "deleted_by_user")]
    /\ blobs' = blobs \ {d}
    /\ UNCHANGED <<wp, sup, ck, uploads, chunkRows, jobs, worker, sweep, results>>

-----------------------------------------------------------------------------
(* processPdfPreprocess and markAsFailed, workers/pdfPreprocess.worker.js.  *)
(* A job's pc names the await its run is at.                                *)

\* (mutant) no idempotency guard
SkipStatusesNone == {}

\* line 93: the statuses that make a run return "skipped"
SkipStatuses == {"completed"}

\* (mutant) the status write is lost
markAsFailedNoWrite(store, d) == store

\* (mutant) the filter has no status
markAsFailedUnguarded(store, d) ==
    IF Exists(store, d)
    THEN [store EXCEPT ![d].preprocessStatus = "failed"]
    ELSE store

\* lines 251-256: updateOne({ _id, preprocessStatus: { $ne: "completed" } }, failed)
markAsFailed(store, d) ==
    IF Exists(store, d) /\ store[d].preprocessStatus # "completed"
    THEN [store EXCEPT ![d].preprocessStatus = "failed"]
    ELSE store

\* (mutant) the transition is not guarded by the status
SetProcessingUnguarded(store, d) ==
    IF Exists(store, d)
    THEN [store EXCEPT ![d].preprocessStatus = "processing"]
    ELSE store

\* lines 100-103: updateOne({ _id, preprocessStatus: "pending" },
\* { $set: { preprocessStatus: "processing" } })
SetProcessing(store, d) ==
    IF Exists(store, d) /\ store[d].preprocessStatus = "pending"
    THEN [store EXCEPT ![d].preprocessStatus = "processing"]
    ELSE store

\* (mutant) the write of the text and the hash completes the document
SetTextHashAndCompleted(store, d, text, hash) ==
    IF Exists(store, d)
    THEN [store EXCEPT ![d].extractedText = text, ![d].contentHash = hash,
                       ![d].preprocessStatus = "completed"]
    ELSE store

\* (mutant) a write on a record that holds a hash clears it
SetTextClearHash(store, d, text, hash) ==
    IF Exists(store, d)
    THEN [store EXCEPT ![d].extractedText = text,
                       ![d].contentHash = IF store[d].contentHash = Null
                                          THEN hash ELSE Null]
    ELSE store

\* lines 163-166: updateOne({ _id }, { $set: { extractedText, contentHash } })
SetTextAndHash(store, d, text, hash) ==
    IF Exists(store, d)
    THEN [store EXCEPT ![d].extractedText = text, ![d].contentHash = hash]
    ELSE store

\* lines 232-235: updateOne({ _id }, { $set: { preprocessStatus: "completed" } })
SetCompleted(store, d) ==
    IF Exists(store, d)
    THEN [store EXCEPT ![d].preprocessStatus = "completed"]
    ELSE store

\* (mutant) the size is not checked
AfterTransitionDownloads(d) == "download"

\* lines 109-122: the size check on the loaded record, then the download
AfterTransition(d) ==
    IF FileSize(docs[d].file) > MAX_PDF_SIZE THEN "fail_size" ELSE "download"

\* the worker takes a waiting job: concurrency: 2
Dequeue(j) ==
    /\ worker = "up"
    /\ j.state = "waiting"
    /\ Cardinality(ActiveJobs) < Concurrency
    /\ jobs' = (jobs \ {j}) \cup {[j EXCEPT !.state = "active", !.pc = "load"]}
    /\ UNCHANGED <<wp, sup, ck, uploads, docs, blobs, chunkRows, worker, sweep, results>>

\* (mutant) the loaded record is not checked
FoundAlways(store, d) == TRUE

\* lines 86-88: what Pdf.findById(pdfId) resolves to is not null
Found(store, d) == Exists(store, d)

\* lines 86-104: findById, the two early returns, the branch on "pending"
Load(j) ==
    /\ worker = "up"
    /\ j.state = "active" /\ j.pc = "load"
    /\ IF ~Found(docs, j.pdfId)
       THEN Returned(j, "skipped:not_found")
       ELSE IF docs[j.pdfId].preprocessStatus \in SkipStatuses
       THEN Returned(j, "skipped:already_completed")
       ELSE /\ Goto(j, IF docs[j.pdfId].preprocessStatus = "pending"
                       THEN "transition" ELSE AfterTransition(j.pdfId))
            /\ UNCHANGED results
    /\ UNCHANGED <<wp, sup, ck, uploads, docs, blobs, chunkRows, worker, sweep>>

\* lines 100-103: updateOne({ _id, preprocessStatus: "pending" }, processing)
Transition(j) ==
    /\ worker = "up"
    /\ j.state = "active" /\ j.pc = "transition"
    /\ docs' = SetProcessing(docs, j.pdfId)
    /\ Goto(j, AfterTransition(j.pdfId))
    /\ UNCHANGED <<wp, sup, ck, uploads, blobs, chunkRows, worker, sweep, results>>

\* lines 111-115, 134-138, 145-149: await markAsFailed, return permanentFailure
MarkFailed(j) ==
    /\ worker = "up"
    /\ j.state = "active" /\ j.pc \in {"fail_size", "fail_extract", "fail_text"}
    /\ docs' = markAsFailed(docs, j.pdfId)
    /\ Returned(j, CASE j.pc = "fail_size" -> "failed:pdf_too_large"
                     [] j.pc = "fail_extract" -> "failed:extract_failed"
                     [] OTHER -> "failed:no_text")
    /\ UNCHANGED <<wp, sup, ck, uploads, blobs, chunkRows, worker, sweep>>

\* lines 120-126: downloadPdfBuffer(pdf.pdfUrl) resolves
Download(j) ==
    /\ worker = "up"
    /\ j.state = "active" /\ j.pc = "download"
    /\ j.pdfId \in blobs
    /\ Goto(j, "extract")
    /\ UNCHANGED <<wp, sup, ck, uploads, docs, blobs, chunkRows, worker, sweep, results>>

\* lines 131-157: extractPdfText, then sanitize, the empty check and the hash
Extract(j) ==
    /\ worker = "up"
    /\ j.state = "active" /\ j.pc = "extract"
    /\ LET f == docs[j.pdfId].file
       IN  Goto(j, IF ~FileReadable(f) THEN "fail_extract"
                   ELSE IF Trim(FileText(f)) = <<>> THEN "fail_text"
                   ELSE "save")
    /\ UNCHANGED <<wp, sup, ck, uploads, docs, blobs, chunkRows, worker, sweep, results>>

\* lines 162-191 and 203-205: updateOne({ _id }, { extractedText, contentHash });
\* E11000 leads to the duplicate clean-up; otherwise chunkText is called at
\* once, and a call that does not return blocks the whole process
Save(j) ==
    /\ worker = "up"
    /\ j.state = "active" /\ j.pc = "save"
    /\ LET d == j.pdfId
           text == FileText(docs[d].file)
           hash == Sha256(text)
           c == chunkText(text, WorkerChunkSize, WorkerOverlap)
       IN  IF Exists(docs, d) /\ HashTaken(docs, d, docs[d].user, hash)
           THEN /\ Goto(j, "destroy_dup")
                /\ UNCHANGED <<docs, worker>>
           ELSE /\ docs' = SetTextAndHash(docs, d, text, hash)
                /\ Goto(j, IF ~c.returns THEN "chunk"
                           ELSE IF Len(c.chunks) > 0 THEN "exists" ELSE "complete")
                /\ worker' = IF c.returns THEN worker ELSE "hung"
    /\ UNCHANGED <<wp, sup, ck, uploads, blobs, chunkRows, sweep, results>>

\* (mutant) a failed destroy is thrown on
AfterDestroyThrows(ok) == IF ok THEN "delete_dup" ELSE "thrown"

\* lines 178-185: try { destroy } catch (cloudErr) { console.error }, then
\* the delete of the record, whether destroy resolved (ok) or rejected
AfterDestroy(ok) == "delete_dup"

\* lines 178-182: cloudinary.uploader.destroy(pdf.publicId); a failure is logged
DestroyDuplicate(j) ==
    /\ worker = "up"
    /\ j.state = "active" /\ j.pc = "destroy_dup"
    /\ \E ok \in BOOLEAN :
          /\ blobs' = IF ok THEN blobs \ {j.pdfId} ELSE blobs
          /\ Goto(j, AfterDestroy(ok))
    /\ UNCHANGED <<wp, sup, ck, uploads, docs, chunkRows, worker, sweep, results>>

\* lines 185-187: Pdf.deleteOne({ _id }), return permanentFailure(duplicate)
DeleteDuplicate(j) ==
    /\ worker = "up"
    /\ j.state = "active" /\ j.pc = "delete_dup"
    /\ docs' = IF Exists(docs, j.pdfId)
               THEN [docs EXCEPT ![j.pdfId] =
                        Deleted(docs[j.pdfId], "deleted_as_duplicate")]
               ELSE docs
    /\ Returned(j, "failed:duplicate_pdf_deleted")
    /\ UNCHANGED <<wp, sup, ck, uploads, blobs, chunkRows, worker, sweep>>

\* an await that rejects (the download, or any MongoDB call) propagates out
\* of the processor, lines 125, 190, 242-245
ThrowingPcs ==
    {"load", "transition", "fail_size", "fail_extract", "fail_text", "download",
     "save", "delete_dup", "exists", "insert", "complete"}

TransientError(j) ==
    /\ worker = "up"
    /\ j.state = "active" /\ j.pc \in ThrowingPcs
    /\ jobs' = AfterThrow(jobs, j)
    /\ UNCHANGED <<wp, sup, ck, uploads, docs, blobs, chunkRows, worker, sweep, results>>

\* chunks.push beyond the largest array length: a RangeError ends the call
\* that never returned, where the heap is large enough to get that far
ChunkOverflow(j) ==
    /\ worker = "hung"
    /\ j.state = "active" /\ j.pc = "chunk"
    /\ worker' = "up"
    /\ jobs' = AfterThrow(jobs, j)
    /\ UNCHANGED <<wp, sup, ck, uploads, docs, blobs, chunkRows, sweep, results>>

\* new Worker(...) sets no maxStalledCount: the default
MaxStalledCount == 1

\* The broker hands a job out at least once.  A run whose lock on the job
\* ran out (it is renewed over the Redis connection) is not stopped; the
\* stalled check puts the job back to waiting, and a free slot takes it while
\* the first run goes on.
Redeliver(j) ==
    /\ worker = "up"
    /\ j.state = "active"
    /\ j.stalled < MaxStalledCount
    /\ \A k \in jobs : k.id = j.id => k = j
    /\ jobs' = jobs \cup {[j EXCEPT !.state = "waiting", !.pc = "-",
                                    !.stalled = j.stalled + 1]}
    /\ UNCHANGED <<wp, sup, ck, uploads, docs, blobs, chunkRows, worker, sweep, results>>

(* Lines 205-240, the steps after a chunkText call that returned. *)

\* lines 206-210: Pdf.exists({ _id })
PdfStillExists(j) ==
    /\ worker = "up"
    /\ j.state = "active" /\ j.pc = "exists"
    /\ IF Exists(docs, j.pdfId)
       THEN Goto(j, "insert") /\ UNCHANGED results
       ELSE Returned(j, "failed:pdf_deleted_during_processing")
    /\ UNCHANGED <<wp, sup, ck, uploads, docs, blobs, chunkRows, worker, sweep>>

\* lines 212-225: insertMany(..., { ordered: false }), E11000 ignored
InsertChunks(j) ==
    /\ worker = "up"
    /\ j.state = "active" /\ j.pc = "insert"
    /\ LET c == chunkText(FileText(docs[j.pdfId].file), WorkerChunkSize, WorkerOverlap)
           idx == {c.chunks[i].index : i \in 1..Len(c.chunks)}
       IN  chunkRows' = [k \in ChunkKeys |->
                            IF k[1] = j.pdfId /\ k[2] \in idx /\
                               ChunkKeyFree(chunkRows, k[1], k[2])
                            THEN chunkRows[k] + 1 ELSE chunkRows[k]]
    /\ Goto(j, "complete")
    /\ UNCHANGED <<wp, sup, ck, uploads, docs, blobs, worker, sweep, results>>

\* lines 232-240: updateOne({ _id }, { preprocessStatus: "completed" })
MarkCompleted(j) ==
    /\ worker = "up"
    /\ j.state = "active" /\ j.pc = "complete"
    /\ docs' = SetCompleted(docs, j.pdfId)
    /\ Returned(j, "completed")
    /\ UNCHANGED <<wp, sup, ck, uploads, blobs, chunkRows, worker, sweep>>

(* The four writes of the worker to a document record, each issued on a    *)
(* document in any status: what a run does that comes late, behind another  *)
(* run or a change of the record it has not seen.                           *)

\* models/pdf.model.js: the enum of preprocessStatus
PreprocessStatuses == {"pending", "processing", "completed", "failed", "deleting"}

Writes == {"processing", "text_hash", "completed", "failed"}

\* the store after the write w of a run on document d
Written(store, d, w) ==
    LET text == FileText(store[d].file)
    IN  CASE w = "processing" -> SetProcessing(store, d)
          [] w = "text_hash" ->
                IF HashTaken(store, d, store[d].user, Sha256(text)) THEN store
                ELSE SetTextAndHash(store, d, text, Sha256(text))
          [] w = "completed" -> SetCompleted(store, d)
          [] OTHER -> markAsFailed(store, d)

\* results records the write issued last on each document
LateWrite(d, w) ==
    /\ Exists(docs, d)
    /\ docs' = Written(docs, d, w)
    /\ results' = [results EXCEPT ![d] = w]
    /\ UNCHANGED <<wp, sup, ck, uploads, blobs, chunkRows, jobs, worker, sweep>>

-----------------------------------------------------------------------------
(* The cluster primary, server.js 28-168, with the worker processes it      *)
(* forks and its shared Redis connection (redis/redis.js).                  *)

MaxProcs == MaxExits + 1
Procs == 1..MaxProcs

\* (mutant) only the first exit is answered
RespawnTimersFirstExitOnly(shuttingDown, exits) ==
    IF ~shuttingDown /\ exits = 0 THEN 1 ELSE 0

\* (mutant) the exit handler runs twice
RespawnTimersTwice(shuttingDown, exits) == IF shuttingDown THEN 0 ELSE 2

\* lines 59-67: worker.on("exit"): if (!isShuttingDown) setTimeout(forkWorker, 1000)
RespawnTimers(shuttingDown, exits) == IF shuttingDown THEN 0 ELSE 1

\* (mutant) every "ready" starts a recovery
RecoveriesOnEveryReady(isFirstConnect) == 1

\* redis.js 34-39: if (!isFirstConnect) recoverOrphanedPdfs()
RecoveriesOnReady(isFirstConnect) == IF isFirstConnect THEN 0 ELSE 1

\* (mutant) the guard never returns
NeverShuttingDown(flag) == FALSE

\* server.js 73 and workerEntry.js 55: if (isShuttingDown) return;
AlreadyShuttingDown(flag) == flag

\* lines 35-39 and redis.js 24: the primary as its module starts to run
SupStart ==
    [alive          |-> TRUE,          \* the primary process runs
     boot           |-> "connecting",  \* line 154: await connectDB()
     isShuttingDown |-> FALSE,
     server         |-> FALSE,         \* `server` is set
     worker         |-> 0,             \* `worker`: the process forked last, 0 for null
     procs          |-> [w \in Procs |-> "unborn"],
     timers         |-> 0,             \* pending setTimeout(forkWorker, 1000)
     unplanned      |-> 0,             \* exits seen while not shutting down
     down           |-> "idle",        \* the await gracefulShutdown is at
     triggers       |-> 0,             \* calls of gracefulShutdown so far
     sent           |-> {},            \* processes sent { type: "shutdown" }
     killed         |-> {},            \* processes sent SIGKILL
     steps          |-> <<>>,          \* the shutdown steps taken, in order
     isFirstConnect |-> TRUE,
     readies        |-> 0,             \* "ready" events so far
     recoveries     |-> 0]             \* recoverOrphanedPdfs calls they started

\* no cluster primary in the picture
SupOff == [SupStart EXCEPT !.alive = FALSE, !.boot = "off"]

AliveProcs(s) == {w \in Procs : s.procs[w] = "alive"}

\* lines 43-69, forkWorker: worker = cluster.fork()
forkWorker(s) ==
    [s EXCEPT !.worker = s.worker + 1, !.procs[s.worker + 1] = "alive"]

\* lines 153-163: connectDB resolved; app.listen, forkWorker
Connected ==
    /\ sup.alive /\ sup.boot = "connecting"
    /\ sup.worker < MaxProcs
    /\ sup' = [forkWorker(sup) EXCEPT !.boot = "done", !.server = TRUE]
    /\ UNCHANGED serviceVars

\* lines 165-168: catch (err) { process.exit(1) }
ConnectFailed ==
    /\ sup.alive /\ sup.boot = "connecting"
    /\ sup' = [sup EXCEPT !.boot = "failed", !.alive = FALSE, !.timers = 0]
    /\ UNCHANGED serviceVars

\* line 66: the respawn timer fires
TimerFires ==
    /\ sup.alive /\ sup.timers > 0
    /\ sup.worker < MaxProcs
    /\ sup' = [forkWorker(sup) EXCEPT !.timers = sup.timers - 1]
    /\ UNCHANGED serviceVars

\* lines 91-108 as far as the next await: send "shutdown" to a live worker and
\* wait for its exit, or go on to the queue
AfterServerClose(s) ==
    IF s.worker > 0 /\ s.procs[s.worker] = "alive"
    THEN [s EXCEPT !.sent = s.sent \cup {s.worker},
                   !.steps = Append(s.steps, "send"),
                   !.down = "wait_worker"]
    ELSE [s EXCEPT !.down = "close_queue"]

\* lines 72-88 and 136-150, gracefulShutdown(signal) on SIGINT, SIGTERM,
\* SIGUSR2, an uncaught exception or an unhandled rejection: the guard, then
\* the sequence as far as its first await
gracefulShutdown ==
    /\ sup.alive /\ sup.triggers < MaxTriggers
    /\ LET t == [sup EXCEPT !.triggers = sup.triggers + 1]
           s == [t EXCEPT !.isShuttingDown = TRUE]
       IN  sup' = IF AlreadyShuttingDown(sup.isShuttingDown) THEN t
                  ELSE IF s.server
                  THEN [s EXCEPT !.steps = Append(s.steps, "server"),
                                 !.down = "close_server"]
                  ELSE AfterServerClose(s)
    /\ UNCHANGED serviceVars

\* lines 82-86: the callback of server.close
ServerClosed ==
    /\ sup.alive /\ sup.down = "close_server"
    /\ sup' = AfterServerClose(sup)
    /\ UNCHANGED serviceVars

\* lines 97-101: the 30 s timeout: worker.kill("SIGKILL"); resolve()
WaitTimeout ==
    /\ sup.alive /\ sup.down = "wait_worker"
    /\ sup' = [sup EXCEPT !.killed = sup.killed \cup {sup.worker},
                          !.steps = Append(sup.steps, "kill"),
                          !.down = "close_queue"]
    /\ UNCHANGED serviceVars

\* lines 111-117: pdfPreprocessQueue.close(), an error is logged
QueueClosed ==
    /\ sup.alive /\ sup.down = "close_queue"
    /\ sup' = [sup EXCEPT !.steps = Append(sup.steps, "queue"),
                          !.down = "close_redis"]
    /\ UNCHANGED serviceVars

\* line 120: redisClient.disconnect(); a rejection ends in process.exit(1)
RedisClosed ==
    /\ sup.alive /\ sup.down = "close_redis"
    /\ \E ok \in BOOLEAN :
          sup' = IF ok
                 THEN [sup EXCEPT !.steps = Append(sup.steps, "redis"),
                                  !.down = "close_mongo"]
                 ELSE [sup EXCEPT !.alive = FALSE, !.timers = 0, !.down = "idle"]
    /\ UNCHANGED serviceVars

\* lines 124-128: mongoose.connection.close(), process.exit(0)
MongoClosed ==
    /\ sup.alive /\ sup.down = "close_mongo"
    /\ sup' = [sup EXCEPT !.steps = Append(sup.steps, "mongo"),
                          !.alive = FALSE, !.timers = 0, !.down = "idle"]
    /\ UNCHANGED serviceVars

\* A worker process exits: on "shutdown" or SIGKILL, or by itself (a crash, a
\* failed start-up, a signal of its own).  Lines 59-68 and 103-106: the two
\* "exit" handlers of the primary.
WorkerExit(w) ==
    /\ sup.procs[w] = "alive"
    /\ \/ ~sup.alive
       \/ sup.isShuttingDown
       \/ sup.unplanned < MaxExits
    /\ LET n == IF sup.alive
                THEN RespawnTimers(sup.isShuttingDown, sup.unplanned) ELSE 0
       IN  sup' = [sup EXCEPT
                     !.procs[w] = "dead",
                     !.timers = sup.timers + n,
                     !.unplanned = IF sup.alive /\ ~sup.isShuttingDown
                                   THEN sup.unplanned + 1 ELSE sup.unplanned,
                     !.down = IF sup.alive /\ sup.down = "wait_worker" /\ w = sup.worker
                              THEN "close_queue" ELSE sup.down]
    /\ UNCHANGED serviceVars

\* redis.js 29-41: "ready" on the shared connection
RedisReady ==
    /\ sup.alive
    /\ sup.readies < MaxReadies
    /\ \A i \in 1..Len(sup.steps) : sup.steps[i] # "redis"
    /\ sup' = [sup EXCEPT
                 !.readies = sup.readies + 1,
                 !.recoveries = sup.recoveries + RecoveriesOnReady(sup.isFirstConnect),
                 !.isFirstConnect = FALSE]
    /\ UNCHANGED serviceVars

-----------------------------------------------------------------------------
(* A worker process, workerEntry.js: startWorker, gracefulShutdown and the  *)
(* handlers of "message", SIGINT and SIGTERM.                               *)

\* lines 89-97: what calls gracefulShutdown
ShutdownSources == {"message", "SIGINT", "SIGTERM"}

\* lines 26-29 and 100: the process as startWorker reaches await connectDB()
WpStart ==
    [alive               |-> TRUE,
     boot                |-> "connecting", \* the await startWorker is at
     isShuttingDown      |-> FALSE,
     pdfPreprocessWorker |-> FALSE,        \* FALSE for null
     consumer            |-> "none",       \* the BullMQ Worker: none, running, closing, closed
     inflight            |-> 0,            \* job executions the consumer has running
     redis               |-> "none",       \* the RedisClient singleton: none, open, closed
     mongo               |-> "none",       \* the mongoose connection: none, open, closed
     down                |-> "idle",       \* the await gracefulShutdown is at
     asked               |-> {},           \* the sources that have called gracefulShutdown
     runs                |-> 0,            \* calls of gracefulShutdown that passed line 55
     sent                |-> {},           \* messages sent to the primary
     code                |-> "-"]          \* how the process ended

\* no worker process in the picture
WpOff == [WpStart EXCEPT !.alive = FALSE, !.boot = "off"]

\* RedisClient.getInstance(): the first call opens the connection
getInstance(w) == [w EXCEPT !.redis = IF w.redis = "none" THEN "open" ELSE w.redis]

\* lines 34-41: connectDB resolved; getInstance(); the import of the worker
\* module begins
WpConnected ==
    /\ wp.alive /\ wp.boot = "connecting"
    /\ wp.mongo # "closed"
    /\ wp' = [getInstance(wp) EXCEPT !.mongo = "open", !.boot = "importing"]
    /\ UNCHANGED <<sup, serviceVarsButWp>>

\* lines 41-45: the worker module is evaluated (part_007 258-262, new Worker:
\* the consumer runs from here), pdfPreprocessWorker is set, "ready" is sent
WpImported ==
    /\ wp.alive /\ wp.boot = "importing"
    /\ wp' = [wp EXCEPT !.consumer = "running", !.pdfPreprocessWorker = TRUE,
                        !.sent = wp.sent \cup {"ready"}, !.boot = "ready"]
    /\ UNCHANGED <<sup, serviceVarsButWp>>

\* lines 47-51: connectDB or the import rejected
WpStartFailed ==
    /\ wp.alive /\ wp.boot \in {"connecting", "importing"}
    /\ wp' = [wp EXCEPT !.sent = wp.sent \cup {"startup-error"},
                        !.boot = "failed", !.alive = FALSE, !.code = "1"]
    /\ UNCHANGED <<sup, serviceVarsButWp>>

\* lines 54-68 as far as the first await: the guard, then close() of the
\* consumer if there is one, else getInstance() and disconnect()
WpGracefulShutdown(src) ==
    /\ wp.alive /\ src \notin wp.asked
    /\ LET w == [wp EXCEPT !.asked = wp.asked \cup {src}]
           s == [w EXCEPT !.isShuttingDown = TRUE, !.runs = w.runs + 1]
       IN  wp' = IF AlreadyShuttingDown(wp.isShuttingDown) THEN w
                 ELSE IF s.pdfPreprocessWorker
                 THEN [s EXCEPT !.consumer = "closing", !.down = "close_worker"]
                 ELSE [getInstance(s) EXCEPT !.down = "close_redis"]
    /\ UNCHANGED <<sup, serviceVarsButWp>>

\* lines 63-69: pdfPreprocessWorker.close() resolved, which it does once no
\* job execution is running; getInstance(), disconnect()
WpWorkerClosed ==
    /\ wp.alive /\ wp.down = "close_worker"
    /\ wp.inflight = 0
    /\ wp' = [getInstance(wp) EXCEPT !.consumer = "closed", !.down = "close_redis"]
    /\ UNCHANGED <<sup, serviceVarsButWp>>

\* lines 69-73: redisClient.disconnect() resolved; mongoose.connection.close()
WpRedisClosed ==
    /\ wp.alive /\ wp.down = "close_redis"
    /\ wp' = [wp EXCEPT !.redis = "closed", !.down = "close_mongo"]
    /\ UNCHANGED <<sup, serviceVarsButWp>>

\* lines 73-80: the connection is closed; "shutdown-complete"; process.exit(0)
WpMongoClosed ==
    /\ wp.alive /\ wp.down = "close_mongo"
    /\ wp' = [wp EXCEPT !.mongo = "closed",
                        !.sent = wp.sent \cup {"shutdown-complete"},
                        !.down = "idle", !.alive = FALSE, !.code = "0"]
    /\ UNCHANGED <<sup, serviceVarsButWp>>

\* lines 82-85: one of the three awaits rejected
WpShutdownFailed ==
    /\ wp.alive /\ wp.down \in {"close_worker", "close_redis", "close_mongo"}
    /\ wp' = [wp EXCEPT !.down = "idle", !.alive = FALSE, !.code = "1"]
    /\ UNCHANGED <<sup, serviceVarsButWp>>

\* the consumer takes a job: concurrency: 2
WpJobStarts ==
    /\ wp.alive /\ wp.consumer = "running"
    /\ wp.redis = "open"
    /\ wp.inflight < Concurrency
    /\ wp' = [wp EXCEPT !.inflight = wp.inflight + 1]
    /\ UNCHANGED <<sup, serviceVarsButWp>>

\* processPdfPreprocess returned or threw
WpJobEnds ==
    /\ wp.alive /\ wp.inflight > 0
    /\ wp' = [wp EXCEPT !.inflight = wp.inflight - 1]
    /\ UNCHANGED <<sup, serviceVarsButWp>>

\* server.js 97-100: SIGKILL from the primary, or a crash
WpKilled ==
    /\ wp.alive
    /\ wp' = [wp EXCEPT !.alive = FALSE, !.code = "killed"]
    /\ UNCHANGED <<sup, serviceVarsButWp>>

-----------------------------------------------------------------------------
(* The state a starting deployment finds: MongoDB and Redis are durable, so *)
(* the collections and the queue hold what earlier runs left, within what   *)
(* the schema indexes and the broker's job ids allow: pending documents not *)
(* yet hashed, completed documents with their text, hash and chunk, and a   *)
(* waiting job for some of them.                                            *)

\* The uploads of one run: who uploads which file under which document id.
\* Of two uploads, the pairs are: the same text twice by one user, the same
\* text by two users, an unreadable and an image-only file, an oversized file
\* beside a good one.  One user cannot hold two records without a hash (see
\* HashTaken), so the files that never get a hash are under two users.
UploadPairs ==
    {<<[user |-> "u1", file |-> "fa"], [user |-> "u1", file |-> "fa2"]>>,
     <<[user |-> "u1", file |-> "fa"], [user |-> "u2", file |-> "fa2"]>>,
     <<[user |-> "u1", file |-> "corrupt"], [user |-> "u2", file |-> "blank"]>>,
     <<[user |-> "u1", file |-> "huge"], [user |-> "u2", file |-> "fa"]>>}

UploadPlans == {[d \in Docs |-> p[((d - 1) % 2) + 1]] : p \in UploadPairs}

GoodFile(f) == FileSize(f) <= MAX_PDF_SIZE /\ FileReadable(f) /\ FileText(f) # <<>>

SeedRecords(u, f) ==
    {NoDoc, NewPdf(u, f)}
    \cup IF GoodFile(f)
         THEN {[NewPdf(u, f) EXCEPT !.preprocessStatus = "completed",
                                    !.extractedText = FileText(f),
                                    !.contentHash = Sha256(FileText(f))]}
         ELSE {}

\* what the unique indexes allow a stored collection to hold
IndexesHold(store) ==
    \A d, e \in Docs :
        (d # e /\ Exists(store, d) /\ Exists(store, e) /\
         store[d].user = store[e].user)
            => store[d].contentHash # store[e].contentHash

MainInit ==
    /\ uploads \in UploadPlans
    /\ docs \in {store \in [Docs -> UNION {SeedRecords(u, f) : u \in Users, f \in Files}] :
                    /\ \A d \in Docs :
                          store[d] \in SeedRecords(uploads[d].user, uploads[d].file)
                    /\ IndexesHold(store)}
    /\ blobs = {d \in Docs : Exists(docs, d)}
    /\ chunkRows = [k \in ChunkKeys |->
                      IF Exists(docs, k[1]) /\ k[2] = 0 /\
                         docs[k[1]].preprocessStatus = "completed"
                      THEN 1 ELSE 0]
    /\ jobs \in SUBSET {NewJob(d) : d \in {e \in Docs : Exists(docs, e)}}
    /\ worker = "down"
    /\ sweep = NoSweep
    /\ results = [d \in Docs |-> "none"]
    /\ sup = SupOff
    /\ wp = WpOff

Init == MainInit /\ ck = ChunkIdle

Next ==
    \/ StartServer
    \/ ForkWorker
    \/ RedisReconnect
    \/ WorkerKilled
    \/ OutOfMemory
    \/ SweepEnqueue
    \/ SweepEnd
    \/ \E d \in Docs : uploadPdfController(d)
    \/ \E d \in Docs : deletePdf(d)
    \/ \E j \in jobs :
          \/ Dequeue(j)
          \/ Load(j)
          \/ Transition(j)
          \/ MarkFailed(j)
          \/ Download(j)
          \/ Extract(j)
          \/ Save(j)
          \/ DestroyDuplicate(j)
          \/ DeleteDuplicate(j)
          \/ TransientError(j)
          \/ ChunkOverflow(j)

Spec == Init /\ [][Next]_vars

(* The service with its environment behaving: the broker reachable, no      *)
(* database or download errors, no user deletes, the worker process never   *)
(* killed from outside.  A process that is down is started, a sweep and a   *)
(* process out of memory go on, and a job of every document that can take a *)
(* step takes it.                                                           *)

JobStep(j) ==
    \/ Dequeue(j)
    \/ Load(j)
    \/ Transition(j)
    \/ MarkFailed(j)
    \/ Download(j)
    \/ Extract(j)
    \/ Save(j)
    \/ DestroyDuplicate(j)
    \/ DeleteDuplicate(j)

LiveNext ==
    \/ StartServer
    \/ ForkWorker
    \/ OutOfMemory
    \/ SweepEnqueueWhen(TRUE)
    \/ SweepEnd
    \/ \E d \in Docs : uploadPdfController(d)
    \/ \E j \in jobs : JobStep(j)
    \/ \E j \in jobs : ChunkOverflow(j)

Fairness ==
    /\ WF_vars(StartServer \/ ForkWorker)
    /\ WF_vars(SweepEnqueueWhen(TRUE))
    /\ WF_vars(SweepEnd)
    /\ WF_vars(OutOfMemory \/ \E j \in jobs : ChunkOverflow(j))
    /\ \A d \in Docs : WF_vars(\E j \in jobs : j.pdfId = d /\ JobStep(j))

LiveSpec == Init /\ [][LiveNext]_vars /\ Fairness

\* the same, with users deleting their documents
DeleteLiveNext ==
    \/ LiveNext
    \/ \E d \in Docs : deletePdf(d)

DeleteLiveSpec == Init /\ [][DeleteLiveNext]_vars /\ Fairness

(* The service with a broker that hands a job out again while its first    *)
(* run goes on: two runs of one job side by side.                           *)

RaceNext ==
    \/ ForkWorker
    \/ OutOfMemory
    \/ \E j \in jobs : JobStep(j)
    \/ \E j \in jobs : ChunkOverflow(j)
    \/ \E j \in jobs : Redeliver(j)

RaceSpec == Init /\ [][RaceNext]_vars

(* The writes alone, on documents in every status of the schema, with and   *)
(* without text and hash.                                                   *)

StoredRecords(u, f) ==
    {NoDoc}
    \cup {[NewPdf(u, f) EXCEPT !.preprocessStatus = st] : st \in PreprocessStatuses \ {"completed"}}
    \cup {[NewPdf(u, f) EXCEPT !.preprocessStatus = st,
                               !.extractedText = FileText(f),
                               !.contentHash = Sha256(FileText(f))] : st \in PreprocessStatuses}

WriteInit ==
    /\ uploads = [d \in Docs |-> [user |-> IF d = 1 THEN "u1" ELSE "u2", file |-> "fa"]]
    /\ docs \in {store \in [Docs -> UNION {StoredRecords(u, "fa") : u \in Users}] :
                    /\ \A d \in Docs :
                          store[d] \in StoredRecords(uploads[d].user, uploads[d].file)
                    /\ IndexesHold(store)}
    /\ blobs = {d \in Docs : Exists(docs, d)}
    /\ chunkRows = NoChunks
    /\ jobs = {}
    /\ worker = "up"
    /\ sweep = NoSweep
    /\ results = [d \in Docs |-> "none"]
    /\ sup = SupOff
    /\ wp = WpOff
    /\ ck = ChunkIdle

WriteNext == \E d \in Docs, w \in Writes : LateWrite(d, w)

WriteSpec == WriteInit /\ [][WriteNext]_vars

(* The cluster primary alone. *)

SupInit ==
    /\ sup = SupStart
    /\ ck = ChunkIdle
    /\ uploads = [d \in Docs |-> [user |-> "u1", file |-> "fa"]]
    /\ docs = [d \in Docs |-> NoDoc]
    /\ blobs = {}
    /\ chunkRows = NoChunks
    /\ jobs = {}
    /\ worker = "down"
    /\ sweep = NoSweep
    /\ results = [d \in Docs |-> "none"]
    /\ wp = WpOff

SupNext ==
    \/ Connected
    \/ ConnectFailed
    \/ TimerFires
    \/ gracefulShutdown
    \/ ServerClosed
    \/ WaitTimeout
    \/ QueueClosed
    \/ RedisClosed
    \/ MongoClosed
    \/ RedisReady
    \/ \E w \in Procs : WorkerExit(w)

SupSpec == SupInit /\ [][SupNext]_vars

\* timers fire, callbacks are called, the awaited closes settle
SupFairness ==
    /\ WF_vars(TimerFires)
    /\ WF_vars(ServerClosed)
    /\ WF_vars(WaitTimeout)
    /\ WF_vars(QueueClosed)
    /\ WF_vars(RedisClosed)
    /\ WF_vars(MongoClosed)

SupFairSpec == SupSpec /\ SupFairness

(* A worker process alone. *)

WpInit ==
    /\ wp = WpStart
    /\ sup = SupOff
    /\ ck = ChunkIdle
    /\ uploads = [d \in Docs |-> [user |-> "u1", file |-> "fa"]]
    /\ docs = [d \in Docs |-> NoDoc]
    /\ blobs = {}
    /\ chunkRows = NoChunks
    /\ jobs = {}
    /\ worker = "down"
    /\ sweep = NoSweep
    /\ results = [d \in Docs |-> "none"]

WpNext ==
    \/ WpConnected
    \/ WpImported
    \/ WpStartFailed
    \/ WpWorkerClosed
    \/ WpRedisClosed
    \/ WpMongoClosed
    \/ WpShutdownFailed
    \/ WpJobStarts
    \/ WpJobEnds
    \/ WpKilled
    \/ \E src \in ShutdownSources : WpGracefulShutdown(src)

WorkerSpec == WpInit /\ [][WpNext]_vars

(* The primary and a worker process, each with its own triggers. *)

ShutdownInit ==
    /\ sup = SupStart
    /\ wp = WpStart
    /\ ck = ChunkIdle
    /\ uploads = [d \in Docs |-> [user |-> "u1", file |-> "fa"]]
    /\ docs = [d \in Docs |-> NoDoc]
    /\ blobs = {}
    /\ chunkRows = NoChunks
    /\ jobs = {}
    /\ worker = "down"
    /\ sweep = NoSweep
    /\ results = [d \in Docs |-> "none"]

ShutdownNext == SupNext \/ WpNext

ShutdownSpec == ShutdownInit /\ [][ShutdownNext]_vars

(* Stand-alone chunkText calls. *)

ChunkInit ==
    /\ ck \in {[ChunkIdle EXCEPT !.pc = "call", !.text = t,
                                 !.chunkSize = p[1], !.overlap = p[2]] :
                 t \in ChunkTexts, p \in ChunkParams}
    /\ uploads = [d \in Docs |-> [user |-> "u1", file |-> "fa"]]
    /\ docs = [d \in Docs |-> NoDoc]
    /\ blobs = {}
    /\ chunkRows = NoChunks
    /\ jobs = {}
    /\ worker = "down"
    /\ sweep = NoSweep
    /\ results = [d \in Docs |-> "none"]
    /\ sup = SupOff
    /\ wp = WpOff

ChunkSpec == ChunkInit /\ [][ChunkNext]_vars

\* a running loop takes its next turn
ChunkFairSpec == ChunkSpec /\ WF_vars(ChunkNext)

-----------------------------------------------------------------------------
(* C1.  chunkText terminates: for every text and every chunkSize, overlap   *)
(* with 0 <= overlap < chunkSize, the worker's 1200 and 250 among them, a   *)
(* call reaches its return.                                                 *)

C1_ChunkTextTerminates == <>(ck.pc = "done")

-----------------------------------------------------------------------------
(* C2.  Every document that is "pending" eventually is "completed", is      *)
(* "failed", or has been deleted as a duplicate, when a worker process is   *)
(* alive, the broker reachable and the download succeeds.                   *)

Terminal(d) ==
    \/ docs[d].life = "deleted_as_duplicate"
    \/ Exists(docs, d) /\ docs[d].preprocessStatus \in {"completed", "failed"}

C2_PendingReachesTerminal ==
    \A d \in Docs :
        [](Exists(docs, d) /\ docs[d].preprocessStatus = "pending" => <>Terminal(d))

-----------------------------------------------------------------------------
(* C3.  A job run that loads a document already "completed" is a no-op: it  *)
(* returns "skipped", writes neither the document nor the chunks nor the    *)
(* blob store, and goes on to no download.  (The run may instead be ended   *)
(* by a failed findById or by the death of the process.)                    *)

C3_CompletedRunIsNoOp ==
    [][\A j \in jobs :
          (/\ j.state = "active" /\ j.pc = "load"
           /\ Exists(docs, j.pdfId)
           /\ docs[j.pdfId].preprocessStatus = "completed"
           /\ j \notin jobs')
          => /\ docs' = docs /\ chunkRows' = chunkRows /\ blobs' = blobs
             /\ \/ jobs' = AfterThrow(jobs, j)
                \/ worker' = "down"
                \/ /\ jobs' = jobs \ {j}
                   /\ results'[j.pdfId] = "skipped:already_completed"]_vars

C3_SkippedCompleted ==
    \E d \in Docs :
        /\ results[d] = "skipped:already_completed"
        /\ Exists(docs, d) /\ docs[d].preprocessStatus = "completed"

-----------------------------------------------------------------------------
(* C5.  Two documents of one owner with the same normalized text: the one   *)
(* whose write of extractedText and contentHash comes second is the one     *)
(* sent to the duplicate clean-up and deleted, with the result              *)
(* "duplicate_pdf_deleted"; the one that wrote first is never deleted by    *)
(* the worker.  So the worker never deletes both, and never leaves both     *)
(* holding the hash.                                                        *)

SameContent(d, e) ==
    /\ d # e
    /\ uploads[d].user = uploads[e].user
    /\ FileText(uploads[d].file) = FileText(uploads[e].file)

SecondWriterLoses ==
    /\ \A j \in jobs :
          j.pc \in {"destroy_dup", "delete_dup"} /\ Exists(docs, j.pdfId)
             => docs[j.pdfId].contentHash = Null
    /\ \A d \in Docs :
          docs[d].life = "deleted_as_duplicate"
             => \E e \in Docs :
                   /\ SameContent(d, e)
                   /\ \/ Exists(docs, e) /\
                         docs[e].contentHash = Sha256(FileText(uploads[e].file))
                      \/ docs[e].life = "deleted_by_user"
    /\ \A d, e \in Docs :
          (SameContent(d, e) /\ Exists(docs, d) /\ Exists(docs, e))
             => docs[d].contentHash = Null \/ docs[e].contentHash = Null

DuplicateReported ==
    \A d \in Docs :
        (docs[d].life = "live" /\ docs'[d].life = "deleted_as_duplicate")
           => results'[d] = "failed:duplicate_pdf_deleted"

-----------------------------------------------------------------------------
(* C6.  For one owner, no two existing documents hold the same non-null     *)
(* contentHash.                                                             *)

C6_HashUniquePerOwner ==
    \A d, e \in Docs :
        (/\ d # e /\ Exists(docs, d) /\ Exists(docs, e)
         /\ docs[d].user = docs[e].user
         /\ docs[d].contentHash # Null)
        => docs[d].contentHash # docs[e].contentHash

\* the index has refused a job's write of a hash that another document of
\* the owner holds
C6_HashContended ==
    \E j \in jobs :
        /\ j.pc = "destroy_dup" /\ Exists(docs, j.pdfId)
        /\ \E e \in Docs :
              /\ e # j.pdfId /\ Exists(docs, e)
              /\ docs[e].user = docs[j.pdfId].user
              /\ docs[e].contentHash = Sha256(FileText(docs[j.pdfId].file))

-----------------------------------------------------------------------------
(* C7.  The worker process died after a job wrote extractedText and         *)
(* contentHash and before it wrote "completed": the document, left in       *)
(* "processing", is enqueued again after the restart and eventually is      *)
(* "completed" with the chunk rows 0..n-1, each once.                       *)

CrashedAfterSave(d) ==
    /\ worker = "down"
    /\ Exists(docs, d)
    /\ docs[d].preprocessStatus = "processing"
    /\ docs[d].contentHash # Null

CompletedWithChunks(d) ==
    /\ Exists(docs, d)
    /\ docs[d].preprocessStatus = "completed"
    /\ \E n \in 1..(MaxChunkIndex + 1) :
          \A i \in 0..MaxChunkIndex :
              chunkRows[<<d, i>>] = IF i < n THEN 1 ELSE 0

C7_CrashedRunIsCompleted ==
    \A d \in Docs : [](CrashedAfterSave(d) => <>CompletedWithChunks(d))

-----------------------------------------------------------------------------
(* C8.  One run of recoverOrphanedPdfs calls enqueue for exactly the        *)
(* documents that were "pending" or "processing" when it scanned, once each *)
(* and for no other document.                                               *)

OrphansSeen == {d \in Docs : sweep.seen[d] \in {"pending", "processing"}}

CalledExactlyOrphans ==
    /\ {sweep.calls[i] : i \in 1..Len(sweep.calls)} = OrphansSeen
    /\ Len(sweep.calls) = Cardinality(OrphansSeen)

\* as claimed: of every run that has ended
C8_EveryRunCallsAllOrphans == sweep.pc \in {"done", "thrown"} => CalledExactlyOrphans

\* amended: of a run that returned; a run in progress or ended by a throw has
\* called a prefix of them
C8_RunCallsOrphansUntilThrow ==
    /\ sweep.pc = "done" => CalledExactlyOrphans
    /\ sweep.pc # "idle" =>
          /\ Len(sweep.calls) <= Cardinality(OrphansSeen)
          /\ sweep.calls = SubSeq(Ascending(OrphansSeen), 1, Len(sweep.calls))

C8_SweptTwo == sweep.pc = "done" /\ Len(sweep.calls) >= 2

-----------------------------------------------------------------------------
(* C9.  enqueuePdfPreprocess for a document that has a live job returns     *)
(* normally and adds no job; a failure of add other than "Job already       *)
(* exists" is thrown on to the caller.                                      *)

C9_EnqueueIdempotent ==
    /\ (sweep.last.live /\ sweep.last.outcome # "error")
          => sweep.last.result = "returned" /\ ~sweep.last.added
    /\ sweep.last.outcome = "exists" => sweep.last.result = "returned"
    /\ sweep.last.outcome = "error" => sweep.last.result = "thrown"

C9_EnqueuedLive ==
    /\ sweep.last.live /\ sweep.last.outcome = "exists"
    /\ \E j \in jobs : j.pdfId = sweep.last.pdfId /\ j.state = "active"

-----------------------------------------------------------------------------
(* C10.  At most one live (waiting or active) job per document.             *)

C10_OneLiveJobPerDocument ==
    \A d \in Docs : Cardinality({j \in jobs : j.pdfId = d}) <= 1

\* a sweep has re-enqueued a document whose job is waiting for a retry
C10_RetryAndSweep ==
    \E j \in jobs :
        /\ j.attemptsMade > 0
        /\ sweep.last.pdfId = j.pdfId /\ sweep.last.result = "returned"

-----------------------------------------------------------------------------
(* C11.  A job whose sanitized text is empty ends with the document         *)
(* "failed" and returns the result no_text without a retry; such a document *)
(* never gets past the text check, is never "completed" and never has a     *)
(* chunk row.                                                               *)

EmptyText(d) ==
    /\ FileSize(uploads[d].file) <= MAX_PDF_SIZE
    /\ FileReadable(uploads[d].file)
    /\ FileText(uploads[d].file) = <<>>

EmptyNeverChunked ==
    \A d \in Docs :
        EmptyText(d) =>
            /\ \A i \in 0..MaxChunkIndex : chunkRows[<<d, i>>] = 0
            /\ Exists(docs, d) => docs[d].preprocessStatus # "completed"
            /\ \A j \in jobs :
                  j.pdfId = d =>
                      j.pc \in {"-", "load", "transition", "download", "extract",
                                "fail_text"}

EmptyTextReturn ==
    \A j \in jobs :
        (/\ j.pc = "fail_text"
         /\ j \notin jobs'
         /\ jobs' # AfterThrow(jobs, j)
         /\ worker' = worker)
        => /\ jobs' = jobs \ {j}
           /\ results'[j.pdfId] = "failed:no_text"
           /\ Exists(docs', j.pdfId) => docs'[j.pdfId].preprocessStatus = "failed"
           /\ chunkRows' = chunkRows

C11_EmptyTextFails == []EmptyNeverChunked /\ [][EmptyTextReturn]_vars

C11_EmptyTextFailed ==
    \E d \in Docs :
        /\ EmptyText(d)
        /\ results[d] = "failed:no_text"
        /\ Exists(docs, d) /\ docs[d].preprocessStatus = "failed"
        /\ \A j \in jobs : j.pdfId # d

-----------------------------------------------------------------------------
(* C12.  A job that is past the text extraction when its document is        *)
(* removed finds the document gone at the re-check before the chunk         *)
(* insertion and ends with the result pdf_deleted_during_processing.        *)

RunningPastExtract(d) ==
    \E j \in jobs :
        j.pdfId = d /\ j.state = "active" /\ j.pc \in {"save", "chunk", "exists"}

C12_DeletedIsDetected ==
    \A d \in Docs :
        []((RunningPastExtract(d) /\ docs[d].life = "deleted_by_user")
              => <>(results[d] = "failed:pdf_deleted_during_processing"))

-----------------------------------------------------------------------------
(* C13.  The delete path removes a record only when its preprocessStatus    *)
(* has been set to "deleting" and no job for it is still waiting.           *)

RemovedAfterDeleting ==
    \A d \in Docs :
        (Exists(docs, d) /\ docs'[d].life = "deleted_by_user")
        => /\ docs[d].preprocessStatus = "deleting"
           /\ ~\E j \in jobs' : j.pdfId = d /\ j.state = "waiting"

C13_DeleteMarksAndDequeues == [][RemovedAfterDeleting]_vars

-----------------------------------------------------------------------------
(* C14.  No chunk row refers to a document that no longer exists.           *)

C14_NoChunkWithoutParent ==
    \A k \in ChunkKeys : chunkRows[k] > 0 => Exists(docs, k[1])

-----------------------------------------------------------------------------
(* C15.  The upload path enqueues a job for every document it creates: the  *)
(* step that creates a record leaves a live job for it.                     *)

CreatedIsEnqueued ==
    \A d \in Docs :
        (docs[d] = NoDoc /\ Exists(docs', d))
        => \E j \in jobs' : j.pdfId = d

C15_UploadEnqueues == [][CreatedIsEnqueued]_vars

-----------------------------------------------------------------------------
(* C16.  In every start-up path the sweep runs before jobs are consumed: a  *)
(* step that starts the consumer of a process is the end of a start-up      *)
(* sweep that returned.                                                     *)

ConsumerStartsAfterSweep ==
    (worker \in {"down", "starting"} /\ worker' = "up")
    => sweep.by = "startup" /\ sweep.pc = "done"

C16_SweepBeforeConsuming == [][ConsumerStartsAfterSweep]_vars

-----------------------------------------------------------------------------
(* C17.  On the shared Redis connection the first "ready" starts no         *)
(* recovery sweep and every later "ready" starts exactly one.               *)

C17_SweepPerReconnect ==
    /\ sup.isFirstConnect <=> sup.readies = 0
    /\ sup.recoveries = IF sup.readies = 0 THEN 0 ELSE sup.readies - 1

C17_Reconnected == sup.readies >= 3 /\ sup.recoveries >= 2

-----------------------------------------------------------------------------
(* C18.  After every exit of a worker process that the primary sees while   *)
(* it is not shutting down, the first as well as any later one, a new       *)
(* worker is forked, as long as the primary process itself runs.            *)

C18_ExitIsRespawned ==
    \A n \in 1..MaxExits :
        [](sup.unplanned >= n => <>(sup.worker >= n + 1 \/ ~sup.alive))

C18_RespawnedAgain ==
    /\ sup.unplanned >= 2 /\ sup.worker >= 3
    /\ sup.alive /\ ~sup.isShuttingDown

-----------------------------------------------------------------------------
(* C19.  At most one worker process is alive at any time.                   *)

C19_OneWorkerAlive == Cardinality(AliveProcs(sup)) <= 1

C19_SecondWorker ==
    /\ sup.worker >= 2
    /\ sup.procs[sup.worker] = "alive"
    /\ sup.procs[1] = "dead"

-----------------------------------------------------------------------------
(* C20.  The primary's shutdown takes its steps in the order: stop the HTTP *)
(* server, send "shutdown" to the worker, wait for its exit or kill it      *)
(* after the timeout, close the queue, the Redis connection, the MongoDB    *)
(* connection.  Nothing is closed while a worker process is alive that has  *)
(* not been killed, and a shutdown that has begun ends.                     *)

StepRank(step) ==
    CASE step = "server" -> 1
      [] step = "send"   -> 2
      [] step = "kill"   -> 3
      [] step = "queue"  -> 4
      [] step = "redis"  -> 5
      [] OTHER           -> 6

StepsInOrder ==
    \A i, k \in 1..Len(sup.steps) :
        i < k => StepRank(sup.steps[i]) < StepRank(sup.steps[k])

ClosesAfterWorker ==
    (/\ Len(sup'.steps) = Len(sup.steps) + 1
     /\ sup'.steps[Len(sup'.steps)] \in {"queue", "redis", "mongo"})
    => \A w \in AliveProcs(sup) : w \in sup.killed

C20_ShutdownInOrder ==
    /\ []StepsInOrder
    /\ [][ClosesAfterWorker]_vars
    /\ (sup.isShuttingDown ~> ~sup.alive)

-----------------------------------------------------------------------------
(* C21.  A worker process that is asked to shut down, at any point of its   *)
(* life, start-up included, closes its consumer and lets every running job  *)
(* execution finish before its Redis connection is closed, closes the       *)
(* MongoDB connection after the Redis connection, and sends                 *)
(* "shutdown-complete" only when consumer and both connections are closed.  *)
(* A consumer that was never started counts as closed.                      *)

ConsumerStopped == wp.consumer \in {"none", "closed"} /\ wp.inflight = 0

C21_WorkerClosesInOrder ==
    /\ wp.redis = "closed" => ConsumerStopped
    /\ wp.mongo = "closed" => wp.redis = "closed"
    /\ "shutdown-complete" \in wp.sent =>
          ConsumerStopped /\ wp.redis = "closed" /\ wp.mongo = "closed"

-----------------------------------------------------------------------------
(* C22.  A call of chunkText with chunkSize 1200 and overlap 250 on a       *)
(* non-empty normalized text of length L produces a number of chunks within *)
(* 1 of ceil((L - overlap) / (chunkSize - overlap)): the list never grows   *)
(* past that number plus 1, and holds at least that number minus 1 at the   *)
(* return.                                                                  *)

\* ceil(n / d) for d > 0
CeilDiv(n, d) == -((-n) \div d)

ExpectedChunks(len, chunkSize, overlap) == CeilDiv(len - overlap, chunkSize - overlap)

C22_ChunkCountNearQuotient ==
    (/\ ck.pc \in {"loop", "done"}
     /\ ck.text # <<>> /\ Trim(ck.text) = ck.text
     /\ ck.chunkSize = WorkerChunkSize /\ ck.overlap = WorkerOverlap)
    => LET n == ExpectedChunks(Len(ck.text), ck.chunkSize, ck.overlap)
       IN  /\ Len(ck.chunks) <= n + 1
           /\ ck.pc = "done" => Len(ck.chunks) >= n - 1

-----------------------------------------------------------------------------
(* C23.  With overlap < chunkSize every turn of the loop of chunkText       *)
(* leaves start greater than it found it, the turn whose end is clamped to  *)
(* the length of the text included.                                         *)

CursorAdvances ==
    (ck.pc = "loop" /\ ck'.pc = "loop" /\ ck.overlap < ck.chunkSize)
    => ck'.start > ck.start

C23_CursorStrictlyIncreases == [][CursorAdvances]_vars

-----------------------------------------------------------------------------
(* C25.  The write of extractedText and contentHash changes those two       *)
(* fields of the document and nothing else, preprocessStatus in particular; *)
(* the run that took a document from pending leaves it in processing, and a *)
(* document in processing whose run is past the transition and before the   *)
(* completed write stays in processing through every step, the steps that   *)
(* interrupt the run (a throw, the death of the process) included, except   *)
(* the run's own terminal return and a delete.                              *)

\* where a run is between the transition and the completed write
PastTransition ==
    {"fail_size", "download", "extract", "fail_extract", "fail_text", "save",
     "destroy_dup", "delete_dup", "chunk", "exists", "insert", "complete"}

SaveFrame ==
    \A j \in ActiveJobs :
        (j.pc = "save" /\ j \notin jobs' /\ docs' # docs)
        => LET text == FileText(docs[j.pdfId].file)
           IN  /\ docs' = [docs EXCEPT ![j.pdfId].extractedText = text,
                                       ![j.pdfId].contentHash = Sha256(text)]
               /\ chunkRows' = chunkRows /\ blobs' = blobs

TransitionSetsProcessing ==
    \A j \in ActiveJobs :
        (/\ j.pc = "transition"
         /\ \E k \in jobs' : k.id = j.id /\ k.pc \in PastTransition
         /\ Exists(docs', j.pdfId))
        => docs'[j.pdfId].preprocessStatus = "processing"

ProcessingHeld ==
    \A j \in ActiveJobs :
        (/\ j.pc \in PastTransition
         /\ Exists(docs, j.pdfId)
         /\ docs[j.pdfId].preprocessStatus = "processing")
        => \/ ~Exists(docs', j.pdfId)
           \/ docs'[j.pdfId].preprocessStatus = "processing"
           \/ /\ j.pc \in {"fail_size", "fail_extract", "fail_text"}
              /\ j \notin jobs'
              /\ docs'[j.pdfId].preprocessStatus = "failed"

C25_SaveKeepsProcessing ==
    [][SaveFrame /\ TransitionSetsProcessing /\ ProcessingHeld]_vars

\* a run was interrupted after its transition: the job waits for another
\* attempt and the document is in processing, text and hash stored
C25_InterruptedInProcessing ==
    \E j \in jobs :
        /\ j.state = "waiting" /\ j.attemptsMade > 0
        /\ Exists(docs, j.pdfId)
        /\ docs[j.pdfId].preprocessStatus = "processing"
        /\ docs[j.pdfId].contentHash # Null

-----------------------------------------------------------------------------
(* C29.  A download that fails, by timeout or otherwise, is thrown out of   *)
(* the job: the run returns no result, no document is written (the status   *)
(* is not set to failed), and the job goes back to waiting with one more    *)
(* attempt made, as long as attempts are left.                              *)

\* the step in which the run of j ends at the download without the process
\* dying and without a buffer
DownloadThrown(j) ==
    /\ j.state = "active" /\ j.pc = "download"
    /\ worker = "up" /\ worker' = "up"
    /\ j \notin jobs'
    /\ [j EXCEPT !.pc = "extract"] \notin jobs'

DownloadFailureIsRetried ==
    \A j \in jobs :
        DownloadThrown(j)
        => /\ results' = results
           /\ docs' = docs
           /\ j.attemptsMade + 1 < Attempts
                 => \E k \in jobs' : /\ k.id = j.id /\ k.state = "waiting"
                                     /\ k.attemptsMade = j.attemptsMade + 1

C29_DownloadFailureIsTransient == [][DownloadFailureIsRetried]_vars

\* the object of a document is gone and its job has thrown twice, the second
\* time at the download
C29_DownloadFailedTwice ==
    \E j \in jobs :
        /\ j.state = "waiting" /\ j.attemptsMade = 2
        /\ Exists(docs, j.pdfId)
        /\ j.pdfId \notin blobs

-----------------------------------------------------------------------------
(* C30.  A source above the maximum size and a source whose text cannot be  *)
(* extracted are permanent failures: the run of an oversized source never   *)
(* gets to the download, the run of an unreadable one never past the        *)
(* extraction; the document of a run that returned pdf_too_large or         *)
(* extract_failed is failed; and the job of a run that returns either is    *)
(* gone from the queue, not retried.                                        *)

PermanentResults == {"failed:pdf_too_large", "failed:extract_failed"}

OversizedNeverDownloaded ==
    \A j \in ActiveJobs :
        /\ FileSize(docs[j.pdfId].file) > MAX_PDF_SIZE
              => j.pc \in {"load", "transition", "fail_size"}
        /\ ~FileReadable(docs[j.pdfId].file)
              => j.pc \in {"load", "transition", "download", "extract", "fail_extract"}

PermanentIsFailed ==
    \A d \in Docs :
        (results[d] \in PermanentResults /\ Exists(docs, d))
        => docs[d].preprocessStatus = "failed"

PermanentIsNotRetried ==
    \A d \in Docs :
        (results'[d] # results[d] /\ results'[d] \in PermanentResults)
        => ~IdLive(jobs', JobId(d))

C30_PermanentFailures ==
    /\ []OversizedNeverDownloaded
    /\ []PermanentIsFailed
    /\ [][PermanentIsNotRetried]_vars

\* the run of an oversized document has returned and its object is untouched
C30_OversizedFailed ==
    \E d \in Docs :
        /\ results[d] = "failed:pdf_too_large"
        /\ Exists(docs, d) /\ docs[d].preprocessStatus = "failed"
        /\ d \in blobs

-----------------------------------------------------------------------------
(* C26.  Of two runs of one job that both loaded the document as pending,   *)
(* at most one goes on past the transition: a run whose guarded update      *)
(* finds the document no longer pending, because the other run has made the *)
(* transition, does not go on to the size check and the download.           *)

\* the status goes to processing from pending only, and never back to pending
TransitionAppliedOnce ==
    \A d \in Docs :
        /\ (Exists(docs', d) /\ docs'[d].preprocessStatus = "processing"
              /\ docs[d].preprocessStatus # "processing")
           => docs[d].preprocessStatus = "pending"
        /\ (Exists(docs, d) /\ docs[d].preprocessStatus # "pending")
           => docs'[d].preprocessStatus # "pending"

LoserStops ==
    \A j \in ActiveJobs :
        (/\ j.pc = "transition"
         /\ Exists(docs, j.pdfId)
         /\ docs[j.pdfId].preprocessStatus # "pending")
        => [j EXCEPT !.pc = AfterTransition(j.pdfId)] \notin jobs'

C26_OnlyOneRunStarts == [][TransitionAppliedOnce /\ LoserStops]_vars

-----------------------------------------------------------------------------
(* C27.  Two runs of one job, interleaved in any way, leave the document as *)
(* one run alone leaves it: once a run has returned a permanent failure the *)
(* document is the uploaded record with status failed and no hash, whatever *)
(* the other run does before or after; once a run has returned              *)
(* duplicate_pdf_deleted the document is gone; a completed document that a  *)
(* run skipped is as it was; and while a run is past the write of text and  *)
(* hash the document is the uploaded record in processing with that text    *)
(* and that hash.  No chunk record is written twice.                        *)

FailedResults == {"failed:pdf_too_large", "failed:extract_failed", "failed:no_text"}

\* the record of document d with the text and the hash of its file
Hashed(d, status) ==
    LET text == FileText(uploads[d].file)
    IN  [NewPdf(uploads[d].user, uploads[d].file) EXCEPT
            !.preprocessStatus = status,
            !.extractedText = text, !.contentHash = Sha256(text)]

\* what one run alone leaves of document d, by what it returned
RunAloneLeaves(d) ==
    LET p == NewPdf(uploads[d].user, uploads[d].file)
    IN  CASE results[d] \in FailedResults -> [p EXCEPT !.preprocessStatus = "failed"]
          [] results[d] = "failed:duplicate_pdf_deleted" ->
                Deleted(p, "deleted_as_duplicate")
          [] results[d] = "skipped:already_completed" -> Hashed(d, "completed")
          [] results[d] = "completed" -> Hashed(d, "completed")
          [] OTHER -> docs[d]

-----------------------------------------------------------------------------
(* C28.  Every write of the worker to a document is conditional on the      *)
(* status the run expects the document to have: the transition changes a    *)
(* pending document only, the write of text and hash and the completed      *)
(* write a document in processing only, markAsFailed a document that is     *)
(* pending, processing or failed.  A write issued on a document in any      *)
(* other status (failed, deleting, completed) changes nothing.              *)

ExpectedPrior(w) ==
    CASE w = "processing" -> {"pending"}
      [] w = "text_hash"  -> {"processing"}
      [] w = "completed"  -> {"processing"}
      [] OTHER            -> {"pending", "processing", "failed"}

WriteIsGuarded ==
    \A d \in Docs :
        docs'[d] # docs[d] => docs[d].preprocessStatus \in ExpectedPrior(results'[d])

C28_WritesAreGuarded == [][WriteIsGuarded]_vars

-----------------------------------------------------------------------------
(* C31.  A job whose run throws on every attempt is run at most 3 times:    *)
(* the first two throws put it back to waiting, the third takes it out of   *)
(* the queue.  No throw writes the document, so the status is never set to  *)
(* failed by a throw; after the third throw the document is as the last     *)
(* run left it: in processing when that run had passed the transition,      *)
(* still pending when every run threw before it.                            *)

\* the step in which the run of j throws, on a document no run of which has
\* returned yet: the process lives on, nothing is returned, and the run is over
ThrownBy(j) ==
    /\ j.state = "active"
    /\ worker' = "up"
    /\ results[j.pdfId] = "none" /\ results' = results
    /\ j \notin jobs'
    /\ ~\E k \in jobs' : k.id = j.id /\ k.state = "active"

AttemptsBounded == \A j \in jobs : j.attemptsMade < Attempts

ThrowIsRetriedTwice ==
    \A j \in jobs :
        ThrownBy(j)
        => /\ docs' = docs
           /\ IF j.attemptsMade + 1 < Attempts
              THEN \E k \in jobs' : /\ k.id = j.id /\ k.state = "waiting"
                                    /\ k.attemptsMade = j.attemptsMade + 1
              ELSE ~IdLive(jobs', j.id)

\* the step in which a job uses up its attempts, its document not completed
Exhausted(j) ==
    /\ ThrownBy(j)
    /\ j.attemptsMade + 1 = Attempts
    /\ Exists(docs, j.pdfId)
    /\ docs[j.pdfId].preprocessStatus # "completed"

\* as claimed: the document is in processing
ExhaustedInProcessing ==
    \A j \in jobs :
        Exhausted(j)
        => /\ Exists(docs', j.pdfId)
           /\ docs'[j.pdfId].preprocessStatus = "processing"

\* amended: in processing once a run is past the transition, pending before
ExhaustedWhereLeft ==
    \A j \in jobs :
        Exhausted(j)
        => /\ Exists(docs', j.pdfId)
           /\ docs'[j.pdfId].preprocessStatus \in
                 IF j.pc \in PastTransition THEN {"processing"}
                 ELSE {"pending", "processing"}

C31_ExhaustedStaysProcessing ==
    /\ []AttemptsBounded
    /\ [][ThrowIsRetriedTwice /\ ExhaustedInProcessing]_vars

C31_ExhaustedStaysAsLeft ==
    /\ []AttemptsBounded
    /\ [][ThrowIsRetriedTwice /\ ExhaustedWhereLeft]_vars

\* the object of a document in processing is gone, no run has returned, and
\* the job that threw twice is no longer in the queue
C31_RetriesUsedUp ==
    \E d \in Docs :
        /\ Exists(docs, d) /\ docs[d].preprocessStatus = "processing"
        /\ d \notin blobs
        /\ results[d] = "none"
        /\ worker = "up"
        /\ ~IdLive(jobs, JobId(d))

-----------------------------------------------------------------------------
(* C32.  A run that loads its document and finds no record returns the      *)
(* result skipped, not_found: it goes on to no further step, the job leaves *)
(* the queue without another attempt, and the documents, the chunk rows and *)
(* the blob store are as they were.  (The load itself may reject, and the   *)
(* process may die: those end the run without a result.)                    *)

AbsentIsSkipped ==
    \A j \in jobs :
        (j.state = "active" /\ j.pc = "load" /\ ~Exists(docs, j.pdfId))
        => /\ \A k \in jobs' : k.id = j.id => k.pc \in {"-", "load"}
           /\ j \notin jobs'
                 => /\ docs' = docs /\ chunkRows' = chunkRows /\ blobs' = blobs
                    /\ \/ jobs' = AfterThrow(jobs, j) /\ results' = results
                       \/ worker' = "down"
                       \/ /\ ~IdLive(jobs', j.id)
                          /\ results'[j.pdfId] = "skipped:not_found"

C32_AbsentIsSkipped == [][AbsentIsSkipped]_vars

\* the run of a document its user has deleted has returned
C32_SkippedDeleted ==
    \E d \in Docs :
        /\ results[d] = "skipped:not_found"
        /\ docs[d].life = "deleted_by_user"
        /\ ~IdLive(jobs, JobId(d))

-----------------------------------------------------------------------------
(* C33.  The contentHash of a document that holds one stays what it is for  *)
(* as long as the record exists: no step of a job, first run or retry,      *)
(* after a crash or after a sweep, sets it to null or to another value.     *)

HashKept ==
    \A d \in Docs :
        (Exists(docs, d) /\ docs[d].contentHash # Null /\ Exists(docs', d))
        => docs'[d].contentHash = docs[d].contentHash

-----------------------------------------------------------------------------
(* C34.  The unique index on owner and hash ignores the records that hold   *)
(* no hash: a record with a null contentHash can be stored for any owner,   *)
(* whatever records that owner has, so one owner may have several of them;  *)
(* and the write of a hash is refused only because another record of the    *)
(* owner holds that hash, never because of a record without one.            *)

\* a record of owner u without a hash can be stored in place of d
NullHashStorable(d, u) == ~HashTaken(docs, d, u, Null)

\* the refusal of the write of its hash to document d is due to a record
\* that holds the hash
RefusedByHolder(d) ==
    LET h == Sha256(FileText(docs[d].file))
    IN  HashTaken(docs, d, docs[d].user, h)
        => \E e \in Docs \ {d} :
              /\ Exists(docs, e) /\ docs[e].user = docs[d].user
              /\ docs[e].contentHash = h /\ docs[e].contentHash # Null

C34_NullHashesIgnored ==
    /\ \A d \in Docs, u \in Users : NullHashStorable(d, u)
    /\ \A d \in Docs : Exists(docs, d) => RefusedByHolder(d)

-----------------------------------------------------------------------------
(* C35.  Once the primary's shutdown has begun (isShuttingDown is set) no    *)
(* worker process is forked: not by a respawn timer that an earlier exit    *)
(* set and that fires during the shutdown, and not by any other step.       *)

NoForkInShutdown == sup.isShuttingDown => sup'.worker = sup.worker

C35_NoForkAfterShutdownBegins == [][NoForkInShutdown]_vars

-----------------------------------------------------------------------------
(* C36.  completed is absorbing for the worker: whichever of its writes is  *)
(* issued on a completed document, by a run that comes late or by one that  *)
(* races another (markAsFailed included), the preprocessStatus of the       *)
(* document stays completed.                                                *)

CompletedStays ==
    \A d \in Docs :
        (/\ Exists(docs, d) /\ docs[d].preprocessStatus = "completed"
         /\ Exists(docs', d))
        => docs'[d].preprocessStatus = "completed"

C36_CompletedIsAbsorbing == [][CompletedStays]_vars

\* markAsFailed was the write issued last on a document that is completed
C36_FailedOnCompleted ==
    \E d \in Docs :
        /\ results[d] = "failed"
        /\ Exists(docs, d) /\ docs[d].preprocessStatus = "completed"

-----------------------------------------------------------------------------
(* C37.  failed is terminal: no write of the worker, issued by whichever    *)
(* run, redelivered or enqueued by a sweep, takes a failed document to      *)
(* processing or to completed.                                              *)

FailedStays ==
    \A d \in Docs :
        (/\ Exists(docs, d) /\ docs[d].preprocessStatus = "failed"
         /\ Exists(docs', d))
        => docs'[d].preprocessStatus \notin {"processing", "completed"}

-----------------------------------------------------------------------------
(* C38.  The shutdown sequence runs at most once in a process.  In the      *)
(* primary no step of it (closing the server, sending "shutdown", the kill, *)
(* closing the queue, Redis, MongoDB) is taken twice, and at most one       *)
(* process is sent "shutdown" and at most one is killed.  In the worker at  *)
(* most one call of gracefulShutdown gets past its guard.  In both, a call  *)
(* that comes while the process is shutting down changes nothing.           *)

NoStepTwice ==
    \A i, k \in 1..Len(sup.steps) : i # k => sup.steps[i] # sup.steps[k]

PrimaryRunsOnce ==
    /\ NoStepTwice
    /\ Cardinality(sup.sent) <= 1
    /\ Cardinality(sup.killed) <= 1

LaterTriggerReturns ==
    /\ (sup.isShuttingDown /\ sup'.triggers # sup.triggers)
          => sup' = [sup EXCEPT !.triggers = sup.triggers + 1]
    /\ (wp.isShuttingDown /\ wp'.asked # wp.asked)
          => wp' = [wp EXCEPT !.asked = wp'.asked]

-----------------------------------------------------------------------------
(* C39.  The sweep calls enqueue for the orphans one after another, in the  *)
(* order of the scan.  A call that fails with an error other than "Job      *)
(* already exists" throws and ends the run there: the orphans after it get  *)
(* no call in that run, and the error reaches the caller, which at start-up *)
(* ends the process before the worker is started.                           *)

OneAfterAnother ==
    sweep.pc # "idle"
    => /\ Len(sweep.calls) = sweep.next - 1
       /\ Len(sweep.calls) <= Len(sweep.scan)
       /\ sweep.calls = SubSeq(sweep.scan, 1, Len(sweep.calls))

ErrorEndsRun ==
    (sweep'.calls # sweep.calls /\ sweep'.last.outcome = "error")
    => /\ sweep'.last.result = "thrown"
       /\ sweep'.pc = "thrown"
       /\ jobs' = jobs

NoCallAfterThrow ==
    sweep.pc = "thrown"
    => \/ sweep' = sweep
       \/ /\ sweep' = NoSweep
          /\ jobs' \subseteq jobs
          /\ sweep.by = "startup" => worker' = "down"

C39_EnqueueErrorAbortsSweep ==
    /\ []OneAfterAnother
    /\ [][ErrorEndsRun /\ NoCallAfterThrow]_vars

\* a run has thrown at an orphan that is not the last of its scan
C39_AbortedBeforeLast ==
    /\ sweep.pc = "thrown"
    /\ Len(sweep.calls) < Len(sweep.scan)
    /\ sweep.last.outcome = "error"

-----------------------------------------------------------------------------
(* C40.  In the duplicate clean-up the run goes from the delete of the      *)
(* stored object to the delete of the record whether the object was deleted *)
(* or not, writing nothing else and returning nothing yet; the delete of    *)
(* the record either removes the record and returns duplicate_pdf_deleted,  *)
(* the job leaving the queue, or throws, leaving the record and going the   *)
(* way of any thrown error.                                                 *)

BlobFailureSwallowed ==
    \A j \in ActiveJobs :
        (j.pc = "destroy_dup" /\ j \notin jobs' /\ worker' = "up")
        => /\ [j EXCEPT !.pc = "delete_dup"] \in jobs'
           /\ docs' = docs /\ results' = results /\ chunkRows' = chunkRows
           /\ blobs' \in {blobs, blobs \ {j.pdfId}}

RecordDeleteDecides ==
    \A j \in ActiveJobs :
        (j.pc = "delete_dup" /\ j \notin jobs' /\ worker' = "up")
        => \/ /\ ~Exists(docs', j.pdfId)
              /\ results'[j.pdfId] = "failed:duplicate_pdf_deleted"
              /\ ~IdLive(jobs', j.id)
           \/ /\ jobs' = AfterThrow(jobs, j)
              /\ docs' = docs /\ results' = results

C40_BlobDeleteFailureSwallowed == [][BlobFailureSwallowed /\ RecordDeleteDecides]_vars

\* the object of a duplicate is still stored, its record is deleted and the
\* run has returned
C40_RecordGoneBlobLeft ==
    \E d \in Docs :
        /\ docs[d].life = "deleted_as_duplicate"
        /\ d \in blobs
        /\ results[d] = "failed:duplicate_pdf_deleted"

=============================================================================
